---- MODULE Spec2Model ----
(***************************************************************************)
(* Model of the countdown-wallpaper pipeline of deadliner:                 *)
(*   gui/src/update_wallpaper.rs  update_wallpaper, generate_wallpaper     *)
(*                                                                         *)
(* Time is counted in whole seconds from midnight of day 0.  chrono's      *)
(* Duration::num_minutes / num_hours / num_days truncate toward zero, and  *)
(* so does Rust's integer division; TruncDiv models both.                  *)
(* Images are modelled by their pixel dimensions <<width, height>>.        *)
(***************************************************************************)
EXTENDS Integers, Sequences, FiniteSets, TLC

(* ------------------------------ bounds --------------------------------- *)

\* Largest day number a sampled deadline falls on (the clock reads day 0).
MaxDays == 61

\* Side lengths 1..MaxDim are sampled for text images and backgrounds.
MaxDim == 4

\* Number of update_wallpaper runs in one behaviour of the pipeline.
MaxRuns == 2

(* --------------------------- time arithmetic --------------------------- *)

\* Rust's i64 division and chrono's num_*: the quotient truncated toward zero.
TruncDiv(a, b) == IF a >= 0 THEN a \div b ELSE -((-a) \div b)

num_minutes(diff) == TruncDiv(diff, 60)

num_hours(diff) == TruncDiv(diff, 60 * 60)

num_days(diff) == TruncDiv(diff, 24 * 60 * 60)

\* NaiveDateTime::parse_from_str(.., "%Y-%m-%d %I:%M %p").  A deadline string
\* is the record of its fields: wf says whether the text has the shape
\* "<date> <hour>:<minute> <AM|PM>" with a valid calendar date, day is that
\* date as a day number, hour is the %I field, minute the %M field.
ParseOk(s) == s.wf /\ s.hour \in 1..12 /\ s.minute \in 0..59

\* %I with %p is the 12-hour clock: 12 AM is hour 0, 12 PM is hour 12.
ParseDeadline(s) ==
    s.day * (24 * 60 * 60)
    + ((s.hour % 12) + (IF s.period = "PM" THEN 12 ELSE 0)) * (60 * 60)
    + s.minute * 60

\* deadline.signed_duration_since(today)
signed_duration_since(deadline_t, today_t) == deadline_t - today_t

(* ------------------------- remaining-time counts ------------------------ *)

MutRemainingNoCarry(diff, c) ==
    LET remaining_days == num_days(diff)
        months == TruncDiv(remaining_days, 30)
        weeks0 == TruncDiv(remaining_days, 7)
        hours0 == num_hours(diff)
        days_in_months == months * 30
        weeks_in_months == TruncDiv(days_in_months, 7)
        days_reminder == days_in_months - weeks_in_months * 7
        weeks1 == IF c.show_months THEN weeks0 - weeks_in_months ELSE weeks0
        days1 == IF c.show_months
                 THEN remaining_days - months * (30 - days_reminder)
                 ELSE remaining_days
        hours1 == IF c.show_months
                  THEN hours0 - months * (30 - days_reminder) * 24
                  ELSE hours0
        \* the slip: the weeks carry is taken from the days pool only
        days2 == IF c.show_weeks THEN days1 - weeks1 * 7 ELSE days1
        hours2 == hours1
        hours3 == IF c.show_days THEN hours2 - days2 * 24 ELSE hours2
    IN  [months |-> months, weeks |-> weeks1, days |-> days2, hours |-> hours3]

MutRemainingWholeMonth(diff, c) ==
    LET remaining_days == num_days(diff)
        months == TruncDiv(remaining_days, 30)
        weeks0 == TruncDiv(remaining_days, 7)
        hours0 == num_hours(diff)
        days_in_months == months * 30
        weeks_in_months == TruncDiv(days_in_months, 7)
        weeks1 == IF c.show_months THEN weeks0 - weeks_in_months ELSE weeks0
        \* the slip: a month takes its full 30 days out of the pools
        days1 == IF c.show_months THEN remaining_days - months * 30 ELSE remaining_days
        hours1 == IF c.show_months THEN hours0 - months * 30 * 24 ELSE hours0
        days2 == IF c.show_weeks THEN days1 - weeks1 * 7 ELSE days1
        hours2 == IF c.show_weeks THEN hours1 - weeks1 * 7 * 24 ELSE hours1
        hours3 == IF c.show_days THEN hours2 - days2 * 24 ELSE hours2
    IN  [months |-> months, weeks |-> weeks1, days |-> days2, hours |-> hours3]

\* update_wallpaper, lines 23-48: the counts for the label.
Remaining(diff, c) ==
    LET remaining_days == num_days(diff)
        months == TruncDiv(remaining_days, 30)
        weeks0 == TruncDiv(remaining_days, 7)
        hours0 == num_hours(diff)
        \* if conf.show_months
        days_in_months == months * 30
        weeks_in_months == TruncDiv(days_in_months, 7)
        days_reminder == days_in_months - weeks_in_months * 7
        weeks1 == IF c.show_months THEN weeks0 - weeks_in_months ELSE weeks0
        days1 == IF c.show_months
                 THEN remaining_days - months * (30 - days_reminder)
                 ELSE remaining_days
        hours1 == IF c.show_months
                  THEN hours0 - months * (30 - days_reminder) * 24
                  ELSE hours0
        \* if conf.show_weeks
        days2 == IF c.show_weeks THEN days1 - weeks1 * 7 ELSE days1
        hours2 == IF c.show_weeks THEN hours1 - weeks1 * 7 * 24 ELSE hours1
        \* if conf.show_days
        hours3 == IF c.show_days THEN hours2 - days2 * 24 ELSE hours2
    IN  [months |-> months, weeks |-> weeks1, days |-> days2, hours |-> hours3]

(* -------------------------------- label --------------------------------- *)

MutLabelSeparator(c, n) ==
    LET s0 == ""
        s1 == IF c.show_months THEN s0 \o ToString(n.months) \o " Months" ELSE s0
        s2 == IF c.show_weeks
              THEN (IF c.show_months THEN s1 \o ", " ELSE s1)
                   \o ToString(n.weeks) \o " Weeks"
              ELSE s1
        s3 == IF c.show_days
              THEN (IF c.show_months \/ c.show_weeks THEN s2 \o ", " ELSE s2)
                   \o ToString(n.days) \o " Days"
              ELSE s2
        \* the slip: the separator before hours forgets show_days
        s4 == IF c.show_hours
              THEN (IF c.show_months \/ c.show_weeks THEN s3 \o ", " ELSE s3)
                   \o ToString(n.hours) \o " Hours"
              ELSE s3
    IN  s4 \o " Left."

\* update_wallpaper, lines 55-82: the label, built by successive push_str.
Label(c, n) ==
    LET s0 == ""
        s1 == IF c.show_months THEN s0 \o ToString(n.months) \o " Months" ELSE s0
        s2 == IF c.show_weeks
              THEN (IF c.show_months THEN s1 \o ", " ELSE s1)
                   \o ToString(n.weeks) \o " Weeks"
              ELSE s1
        s3 == IF c.show_days
              THEN (IF c.show_months \/ c.show_weeks THEN s2 \o ", " ELSE s2)
                   \o ToString(n.days) \o " Days"
              ELSE s2
        s4 == IF c.show_hours
              THEN (IF c.show_months \/ c.show_weeks \/ c.show_days
                    THEN s3 \o ", " ELSE s3)
                   \o ToString(n.hours) \o " Hours"
              ELSE s3
    IN  s4 \o " Left."

\* line 84: the past-deadline test.
MutPastDeadlineStrict(m) == m < 0

PastDeadline(m) == m <= 0

PastDeadlineMsg == "Deadline must be a future date!"

(* ------------------------------ compositing ----------------------------- *)

\* u32 subtraction a - b.  The value is the mathematical difference; when it
\* is negative the subtraction overflows (a panic in a debug build, a wrapped
\* value in a release build), which Underflows reports.
Sub32(a, b) == a - b

Underflows(bg, txt) == bg[1] \div 2 < txt[1] \div 2 \/ bg[2] \div 2 < txt[2] \div 2

\* generate_wallpaper, line 148: the text does not fit inside the background.
MutSizeMismatchStrict(bg, txt) == bg[1] < txt[1] \/ bg[2] < txt[2]

MutSizeMismatchWidthOnly(bg, txt) == bg[1] <= txt[1]

SizeMismatch(bg, txt) == bg[1] <= txt[1] \/ bg[2] <= txt[2]

SizeMismatchMsg == "Font size is bigger than wallpaper's dimensions!"

\* generate_wallpaper, lines 156-157: where the text is laid over the background.
MutOriginHalvedAfter(bg, txt) ==
    << Sub32(bg[1], txt[1]) \div 2, Sub32(bg[2], txt[2]) \div 2 >>

OverlayOrigin(bg, txt) ==
    << Sub32(bg[1] \div 2, txt[1] \div 2), Sub32(bg[2] \div 2, txt[2] \div 2) >>

DownloadMsg == "Couldn't download the Image from the supplied URL!"

SaveMsg == "Couldn't save result.png"

\* get_cache_dir().join("result.png")
ResultPath == "<cache>/result.png"

(* -------------------------------- state --------------------------------- *)

VARIABLES
    pc,            \* position of the run inside update_wallpaper / generate_wallpaper
    runs,          \* number of runs started
    conf,          \* the SanitizedConf the run was called with
    today,         \* Local::now()
    deadline,      \* the parsed deadline
    minutes, months, weeks, days, hours,     \* locals of update_wallpaper
    deadline_str,  \* the label (local deadline_str of update_wallpaper)
    text_png,      \* size of the rendered text image
    background,    \* size of the resolved background
    origin,        \* <<x, y>> of generate_wallpaper
    file_path,     \* the path generate_wallpaper returned
    result,        \* what the run returned, or that it panicked
    cache,         \* the file <cache>/result.png
    desktop,       \* the desktop wallpaper: fit mode, path it was set from, image
    cache0,        \* cache when the run started
    desktop0,      \* desktop when the run started
    done,          \* steps the run has executed, in order
    saved          \* the composite the most recent successful save wrote

vars == << pc, runs, conf, today, deadline, minutes, months, weeks, days, hours,
           deadline_str, text_png, background, origin, file_path, result,
           cache, desktop, cache0, desktop0, done, saved >>

locals == << deadline, minutes, months, weeks, days, hours, deadline_str,
             text_png, background, origin, file_path >>

world == << cache, desktop, saved >>

frame == << runs, conf, today, cache0, desktop0 >>

NoSize == << 0, 0 >>

NoResult == [kind |-> "none", msg |-> ""]

Ok == [kind |-> "Ok", msg |-> ""]

Err(m) == [kind |-> "Err", msg |-> m]

Panic == [kind |-> "panic", msg |-> ""]

NoFile == [state |-> "absent", run |-> 0, size |-> NoSize]

\* A file the encoder did not finish writing.
PartialFile(r) == [state |-> "partial", run |-> r, size |-> NoSize]

ImageFile(r, sz) == [state |-> "image", run |-> r, size |-> sz]

NoWallpaper == [mode |-> "unset", path |-> "", image |-> NoFile]

(* ------------------------------- inputs --------------------------------- *)

\* Local::now(): midnight of day 0, or half a minute later.
NowSamples == {0, 30}

WallpaperModes == {"Center", "Crop", "Fit", "Span"}

BackgroundOptions == {"Solid", "FromDisk", "FromURL"}

Malformed ==
    { [wf |-> FALSE, day |-> 0, hour |-> 12, minute |-> 0, period |-> "AM"],
      [wf |-> TRUE, day |-> 1, hour |-> 13, minute |-> 0, period |-> "PM"],
      [wf |-> TRUE, day |-> 1, hour |-> 0, minute |-> 30, period |-> "AM"],
      [wf |-> TRUE, day |-> 1, hour |-> 2, minute |-> 60, period |-> "AM"] }

CalcDeadlineStrs ==
    [wf : {TRUE}, day : (-1)..MaxDays, hour : {12, 2, 11}, minute : {0, 1},
     period : {"AM", "PM"}] \cup Malformed

CalcConfs ==
    [deadline_str : CalcDeadlineStrs,
     show_months : BOOLEAN, show_weeks : BOOLEAN,
     show_days : BOOLEAN, show_hours : BOOLEAN,
     bg_type : {"Solid"}, bg_mode : {"Center"},
     screen_dimensions : {<<1000, 800>>}]

PipeDeadlineStrs ==
    { [wf |-> FALSE, day |-> 0, hour |-> 12, minute |-> 0, period |-> "AM"],
      [wf |-> TRUE, day |-> 0, hour |-> 12, minute |-> 0, period |-> "AM"],
      [wf |-> TRUE, day |-> 0, hour |-> 12, minute |-> 1, period |-> "AM"],
      [wf |-> TRUE, day |-> 2, hour |-> 2, minute |-> 0, period |-> "AM"] }

PipeConfs ==
    { [deadline_str |-> s,
       show_months |-> f, show_weeks |-> f, show_days |-> TRUE, show_hours |-> f,
       bg_type |-> t, bg_mode |-> m, screen_dimensions |-> d] :
      s \in PipeDeadlineStrs, f \in BOOLEAN, t \in BackgroundOptions,
      m \in WallpaperModes, d \in {<<1000, 800>>, <<200, 100>>} }

\* The configuration a fresh Deadliner holds: no date entered yet.
NoConf ==
    [deadline_str |-> [wf |-> FALSE, day |-> 0, hour |-> 0, minute |-> 0,
                       period |-> "AM"],
     show_months |-> FALSE, show_weeks |-> FALSE,
     show_days |-> TRUE, show_hours |-> TRUE,
     bg_type |-> "Solid", bg_mode |-> "Center",
     screen_dimensions |-> <<1000, 800>>]

PipeTextSizes == {<<200, 100>>, <<1000, 800>>}

PipeImageSizes == {<<1000, 800>>, <<1920, 1080>>}

ComposeSizes ==
    ((1..MaxDim) \X (1..MaxDim))
    \cup {<<200, 100>>, <<1000, 800>>}

(* ------------------------- update_wallpaper ----------------------------- *)

Step(name) == done' = Append(done, name)

\* update_wallpaper is called with a SanitizedConf and reads the clock (line 17).
Invoke(confs) ==
    /\ pc \in {"idle", "returned"}
    /\ runs < MaxRuns
    /\ \E c \in confs, t \in NowSamples :
        /\ conf' = c
        /\ today' = t
    /\ runs' = runs + 1
    /\ pc' = "parse"
    /\ deadline' = 0
    /\ minutes' = 0 /\ months' = 0 /\ weeks' = 0 /\ days' = 0 /\ hours' = 0
    /\ deadline_str' = ""
    /\ text_png' = NoSize /\ background' = NoSize /\ origin' = NoSize
    /\ file_path' = ""
    /\ result' = NoResult
    /\ cache0' = cache /\ desktop0' = desktop
    /\ done' = << >>
    /\ UNCHANGED world

\* line 18: parse_from_str(..).unwrap()
Parse ==
    /\ pc = "parse"
    /\ Step("parse")
    /\ IF ParseOk(conf.deadline_str)
       THEN /\ deadline' = ParseDeadline(conf.deadline_str)
            /\ pc' = "compute"
            /\ UNCHANGED result
       ELSE /\ pc' = "panicked"
            /\ result' = Panic
            /\ UNCHANGED deadline
    /\ UNCHANGED << minutes, months, weeks, days, hours, deadline_str, text_png,
                    background, origin, file_path, world, frame >>

\* lines 19-48
Compute ==
    /\ pc = "compute"
    /\ Step("compute")
    /\ LET diff == signed_duration_since(deadline, today)
           n == Remaining(diff, conf)
       IN  /\ minutes' = num_minutes(diff)
           /\ months' = n.months
           /\ weeks' = n.weeks
           /\ days' = n.days
           /\ hours' = n.hours
    /\ pc' = "label"
    /\ UNCHANGED << deadline, deadline_str, text_png, background, origin,
                    file_path, result, world, frame >>

\* lines 55-82
BuildLabel ==
    /\ pc = "label"
    /\ Step("label")
    /\ deadline_str' = Label(conf, [months |-> months, weeks |-> weeks,
                                    days |-> days, hours |-> hours])
    /\ pc' = "check"
    /\ UNCHANGED << deadline, minutes, months, weeks, days, hours, text_png,
                    background, origin, file_path, result, world, frame >>

\* lines 84-89: the past-deadline test, then the call of generate_wallpaper
CheckDeadline ==
    /\ pc = "check"
    /\ Step("check")
    /\ IF PastDeadline(minutes)
       THEN /\ result' = Err(PastDeadlineMsg)
            /\ pc' = "returned"
       ELSE /\ pc' = "font"
            /\ UNCHANGED result
    /\ UNCHANGED << locals, world, frame >>

(* ------------------------- generate_wallpaper --------------------------- *)

\* lines 104-106: fs::read(font).unwrap(), try_new_with_ttf_font_data(..).unwrap()
LoadFont ==
    /\ pc = "font"
    /\ Step("font")
    /\ \E readable \in BOOLEAN, parsable \in BOOLEAN :
        IF readable /\ parsable
        THEN pc' = "render" /\ UNCHANGED result
        ELSE pc' = "panicked" /\ result' = Panic
    /\ UNCHANGED << locals, world, frame >>

\* lines 108-112: the renderer decides the size of the text image
RenderText(sizes) ==
    /\ pc = "render"
    /\ Step("render")
    /\ \E sz \in sizes : text_png' = sz
    /\ pc' = "background"
    /\ UNCHANGED << deadline, minutes, months, weeks, days, hours, deadline_str,
                    background, origin, file_path, result, world, frame >>

\* lines 116-146
ResolveBackground(sizes) ==
    /\ pc = "background"
    /\ Step("background")
    /\ CASE conf.bg_type = "FromDisk" ->
              \* image::open(..).unwrap(): the file is missing or corrupt, or decodes
              \/ /\ pc' = "panicked" /\ result' = Panic
                 /\ UNCHANGED background
              \/ /\ \E sz \in sizes : background' = sz
                 /\ pc' = "sizecheck"
                 /\ UNCHANGED result
         [] conf.bg_type = "Solid" ->
              /\ background' = conf.screen_dimensions
              /\ pc' = "sizecheck"
              /\ UNCHANGED result
         [] OTHER ->
              \* download_image fails; or succeeds and decoding panics or succeeds
              \/ /\ result' = Err(DownloadMsg)
                 /\ pc' = "returned"
                 /\ UNCHANGED background
              \/ /\ pc' = "panicked" /\ result' = Panic
                 /\ UNCHANGED background
              \/ /\ \E sz \in sizes : background' = sz
                 /\ pc' = "sizecheck"
                 /\ UNCHANGED result
    /\ UNCHANGED << deadline, minutes, months, weeks, days, hours, deadline_str,
                    text_png, origin, file_path, world, frame >>

\* lines 148-152
SizeCheck ==
    /\ pc = "sizecheck"
    /\ Step("sizecheck")
    /\ IF SizeMismatch(background, text_png)
       THEN /\ result' = Err(SizeMismatchMsg)
            /\ pc' = "returned"
       ELSE /\ pc' = "overlay"
            /\ UNCHANGED result
    /\ UNCHANGED << locals, world, frame >>

\* lines 156-159
Overlay ==
    /\ pc = "overlay"
    /\ Step("overlay")
    /\ origin' = OverlayOrigin(background, text_png)
    /\ pc' = "save"
    /\ UNCHANGED << deadline, minutes, months, weeks, days, hours, deadline_str,
                    text_png, background, file_path, result, world, frame >>

MutSaveIgnoresError ==
    /\ pc = "save"
    /\ Step("save")
    \* the slip: the result of save is dropped and the path is returned anyway
    /\ cache' \in {ImageFile(runs, background), cache, PartialFile(runs)}
    /\ file_path' = ResultPath
    /\ pc' = "set_mode"
    /\ UNCHANGED << result, saved >>
    /\ UNCHANGED << deadline, minutes, months, weeks, days, hours, deadline_str,
                    text_png, background, origin, desktop, frame >>

\* lines 161-166: background.save(&file_path) creates the file and encodes into
\* it.  A failure leaves the file as it was (it could not be created) or
\* truncated (the encoder stopped part-way).
Save ==
    /\ pc = "save"
    /\ Step("save")
    /\ \/ /\ cache' = ImageFile(runs, background)
          /\ saved' = ImageFile(runs, background)
          /\ file_path' = ResultPath
          /\ pc' = "set_mode"
          /\ UNCHANGED result
       \/ /\ cache' \in {cache, PartialFile(runs)}
          /\ result' = Err(SaveMsg)
          /\ pc' = "returned"
          /\ UNCHANGED << file_path, saved >>
    /\ UNCHANGED << deadline, minutes, months, weeks, days, hours, deadline_str,
                    text_png, background, origin, desktop, frame >>

(* --------------------- update_wallpaper, lines 91-100 ------------------- *)

\* The file the wallpaper setter finds at a path: only result.png is modelled.
FileAt(path) == IF path = ResultPath THEN cache ELSE NoFile

\* line 94: wallpaper::set_mode(conf.bg_mode.into()).unwrap()
SetMode ==
    /\ pc = "set_mode"
    /\ Step("set_mode")
    /\ \/ /\ desktop' = [desktop EXCEPT !.mode = conf.bg_mode]
          /\ pc' = "set_from_path"
          /\ UNCHANGED result
       \/ /\ pc' = "panicked" /\ result' = Panic
          /\ UNCHANGED desktop
    /\ UNCHANGED << locals, cache, saved, frame >>

\* lines 95-97: wallpaper::set_from_path(&file_path).unwrap(); Ok(())
SetFromPath ==
    /\ pc = "set_from_path"
    /\ Step("set_from_path")
    /\ \/ /\ desktop' = [desktop EXCEPT !.path = file_path,
                                        !.image = FileAt(file_path)]
          /\ pc' = "returned"
          /\ result' = Ok
       \/ /\ pc' = "panicked" /\ result' = Panic
          /\ UNCHANGED desktop
    /\ UNCHANGED << locals, cache, saved, frame >>

(* ---------------------------- specifications ---------------------------- *)

Blank ==
    /\ deadline = 0
    /\ minutes = 0 /\ months = 0 /\ weeks = 0 /\ days = 0 /\ hours = 0
    /\ deadline_str = ""
    /\ text_png = NoSize /\ background = NoSize /\ origin = NoSize
    /\ file_path = ""
    /\ result = NoResult
    /\ cache = NoFile /\ desktop = NoWallpaper /\ saved = NoFile
    /\ cache0 = NoFile /\ desktop0 = NoWallpaper

\* The application before its first run.
Init ==
    /\ pc = "idle"
    /\ runs = 0
    /\ conf = NoConf
    /\ today = 0
    /\ done = << >>
    /\ Blank

Next ==
    \/ Invoke(PipeConfs)
    \/ Parse
    \/ Compute
    \/ BuildLabel
    \/ CheckDeadline
    \/ LoadFont
    \/ RenderText(PipeTextSizes)
    \/ ResolveBackground(PipeImageSizes)
    \/ SizeCheck
    \/ Overlay
    \/ Save
    \/ SetMode
    \/ SetFromPath

Spec == Init /\ [][Next]_vars

\* The time-remaining computation alone, over every sampled deadline and every
\* combination of the visibility flags.
InitCalc ==
    /\ pc = "parse"
    /\ runs = 1
    /\ conf \in CalcConfs
    /\ today \in NowSamples
    /\ done = << >>
    /\ Blank

NextCalc ==
    \/ Parse
    \/ Compute
    \/ BuildLabel
    \/ CheckDeadline

SpecCalc == InitCalc /\ [][NextCalc]_vars

\* The size check and the centring alone, over every sampled pair of sizes.
InitCompose ==
    /\ pc = "sizecheck"
    /\ runs = 1
    /\ conf = NoConf
    /\ today = 0
    /\ done = << "parse", "compute", "label", "check", "font", "render", "background" >>
    /\ deadline = 0
    /\ minutes = 0 /\ months = 0 /\ weeks = 0 /\ days = 0 /\ hours = 0
    /\ deadline_str = ""
    /\ text_png \in ComposeSizes
    /\ background \in ComposeSizes
    /\ origin = NoSize
    /\ file_path = ""
    /\ result = NoResult
    /\ cache = NoFile /\ desktop = NoWallpaper /\ saved = NoFile
    /\ cache0 = NoFile /\ desktop0 = NoWallpaper

NextCompose ==
    \/ SizeCheck
    \/ Overlay

SpecCompose == InitCompose /\ [][NextCompose]_vars

(* ------------------------------- claims --------------------------------- *)

Did(name) == \E i \in 1..Len(done) : done[i] = name

LastStep == IF done = << >> THEN "" ELSE done[Len(done)]

AllShown == conf.show_months /\ conf.show_weeks /\ conf.show_days /\ conf.show_hours

OnlyDaysShown ==
    ~conf.show_months /\ ~conf.show_weeks /\ conf.show_days /\ ~conf.show_hours

\* C1: once the past-deadline test has run, a deadline later than now is not
\* rejected with PastDeadline and a deadline at or before now is; this includes
\* deadlines less than one whole minute after now.
C1_FutureDeadlineAccepted ==
    Did("check") =>
        /\ today < deadline => result # Err(PastDeadlineMsg)
        /\ today >= deadline => result = Err(PastDeadlineMsg)

\* C2: the run returns "Deadline must be a future date!" exactly when the whole
\* minutes of (deadline - now) are <= 0, and then generate_wallpaper has not
\* run: no text, no background, no file written, wallpaper untouched.
C2_PastDeadlineExactly ==
    /\ (result = Err(PastDeadlineMsg))
         <=> (Did("check") /\ TruncDiv(deadline - today, 60) <= 0)
    /\ result = Err(PastDeadlineMsg) =>
         /\ pc = "returned"
         /\ done = << "parse", "compute", "label", "check" >>
         /\ text_png = NoSize /\ background = NoSize /\ file_path = ""
         /\ cache = cache0 /\ desktop = desktop0

C2_Witness ==
    /\ result = Err(PastDeadlineMsg)
    /\ today < deadline
    /\ cache0.state = "image" /\ desktop0.image.state = "image"

\* C3: a run that passed the past-deadline test has months, weeks, days and
\* hours all >= 0, whatever the visibility flags.
C3_CountsNonNegative ==
    (Did("check") /\ result # Err(PastDeadlineMsg)) =>
        months >= 0 /\ weeks >= 0 /\ days >= 0 /\ hours >= 0

C3_Witness ==
    /\ Did("check") /\ result # Err(PastDeadlineMsg)
    /\ AllShown
    /\ months = 2 /\ weeks = 0 /\ days > 7 /\ hours = 23

\* The carry cascade as the specification words it (section 4.1), over the
\* whole days and whole hours of the remaining duration.
CascadeMonths(totalDays) == TruncDiv(totalDays, 30)

CascadeMonthDays(totalDays) ==
    LET daysInMonths == CascadeMonths(totalDays) * 30
        dayRemainder == daysInMonths - TruncDiv(daysInMonths, 7) * 7
    IN  CascadeMonths(totalDays) * (30 - dayRemainder)

CascadeWeeks(totalDays, c) ==
    TruncDiv(totalDays, 7)
    - (IF c.show_months THEN TruncDiv(CascadeMonths(totalDays) * 30, 7) ELSE 0)

CascadeDays(totalDays, c) ==
    totalDays
    - (IF c.show_months THEN CascadeMonthDays(totalDays) ELSE 0)
    - (IF c.show_weeks THEN CascadeWeeks(totalDays, c) * 7 ELSE 0)

CascadeHours(totalDays, totalHours, c) ==
    totalHours
    - (IF c.show_months THEN CascadeMonthDays(totalDays) * 24 ELSE 0)
    - (IF c.show_weeks THEN CascadeWeeks(totalDays, c) * 7 * 24 ELSE 0)
    - (IF c.show_days THEN CascadeDays(totalDays, c) * 24 ELSE 0)

\* C4: the counts update_wallpaper computes are those of the carry cascade,
\* for every sampled duration and every combination of the flags; with only
\* days shown and 50 hours remaining, days = 2 and the label is "2 Days Left.".
C4_CarryCascade ==
    LET totalDays == TruncDiv(deadline - today, 86400)
        totalHours == TruncDiv(deadline - today, 3600)
    IN  /\ Did("compute") =>
            /\ months = CascadeMonths(totalDays)
            /\ weeks = CascadeWeeks(totalDays, conf)
            /\ days = CascadeDays(totalDays, conf)
            /\ hours = CascadeHours(totalDays, totalHours, conf)
        /\ (Did("label") /\ OnlyDaysShown /\ deadline - today = 50 * 3600) =>
            /\ days = 2
            /\ deadline_str = "2 Days Left."

C4_Witness ==
    /\ Did("label") /\ OnlyDaysShown /\ deadline - today = 50 * 3600
    /\ pc = "font"

\* The enabled units, in the order months, weeks, days, hours.
ShownUnits ==
    (IF conf.show_months THEN << ToString(months) \o " Months" >> ELSE << >>)
    \o (IF conf.show_weeks THEN << ToString(weeks) \o " Weeks" >> ELSE << >>)
    \o (IF conf.show_days THEN << ToString(days) \o " Days" >> ELSE << >>)
    \o (IF conf.show_hours THEN << ToString(hours) \o " Hours" >> ELSE << >>)

RECURSIVE JoinUnits(_)
JoinUnits(units) ==
    IF units = << >> THEN ""
    ELSE IF Len(units) = 1 THEN units[1]
    ELSE units[1] \o ", " \o JoinUnits(Tail(units))

\* C5: the label is the enabled units, in the order months, weeks, days, hours,
\* each "<count> <Unit>", joined by ", ", followed by " Left."; nothing else.
C5_LabelJoinsShownUnits ==
    Did("label") => deadline_str = JoinUnits(ShownUnits) \o " Left."

C5_Witness ==
    /\ Did("label")
    /\ ~conf.show_months /\ ~conf.show_weeks /\ conf.show_days /\ conf.show_hours
    /\ deadline_str = "61 Days, 11 Hours Left."

\* C6: the size check fails with "Font size is bigger than wallpaper's
\* dimensions!" exactly when the text is at least as wide or at least as high
\* as the background; a text strictly smaller both ways goes on to be overlaid.
C6_SizeMismatchExactly ==
    Did("sizecheck") =>
        /\ (result = Err(SizeMismatchMsg))
             <=> (text_png[1] >= background[1] \/ text_png[2] >= background[2])
        /\ (text_png[1] < background[1] /\ text_png[2] < background[2])
             => (result = NoResult /\ pc \in {"overlay", "save"})

C6_Witness ==
    /\ Did("sizecheck")
    /\ result = Err(SizeMismatchMsg)
    /\ text_png[1] < background[1] /\ text_png[2] = background[2]

\* C7: the overlay origin halves each dimension separately before subtracting:
\* 2*x = (bw - bw mod 2) - (tw - tw mod 2), and likewise y; a 200x100 text on a
\* 1000x800 background is placed at (400, 350).
C7_OverlayOriginCentred ==
    Did("overlay") =>
        /\ 2 * origin[1] = (background[1] - (background[1] % 2))
                             - (text_png[1] - (text_png[1] % 2))
        /\ 2 * origin[2] = (background[2] - (background[2] % 2))
                             - (text_png[2] - (text_png[2] % 2))
        /\ (background = <<1000, 800>> /\ text_png = <<200, 100>>)
             => origin = <<400, 350>>

C7_Witness ==
    /\ Did("overlay")
    /\ background = <<1000, 800>> /\ text_png = <<200, 100>>
    /\ origin = <<400, 350>>

\* C8: a deadline string that does not match the format makes the run return
\* an error value; the run does not panic.
C8_MalformedDeadlineReturnsErr ==
    (Did("parse") /\ ~ParseOk(conf.deadline_str)) =>
        (pc = "returned" /\ result.kind = "Err")

\* C9: a failure to load the font or the background (missing or corrupt file,
\* failed download, undecodable download) ends the run with an error value,
\* never with a panic.
C9_LoadFailureReturnsErr ==
    (LastStep \in {"font", "background"} /\ pc \notin {"render", "sizecheck"}) =>
        (pc = "returned" /\ result.kind = "Err")

\* C10: a run that returned an error stopped at the failing step, and left
\* result.png and the desktop wallpaper as they were when it started.
C10_FailureLeavesNoTrace ==
    result.kind = "Err" =>
        /\ pc = "returned"
        /\ LastStep \in {"check", "background", "sizecheck", "save"}
        /\ cache = cache0
        /\ desktop = desktop0

GeneratePcs == {"font", "render", "background", "sizecheck", "overlay", "save"}

\* C11: generate_wallpaper never touches the desktop; the wallpaper setter is
\* called only after the composite was saved and its path returned, it gets
\* that path and the configured fit mode, and a run that returned an error
\* never called it.
C11_SetterOnlyAfterSave ==
    /\ pc \in GeneratePcs => desktop = desktop0
    /\ (Did("set_mode") \/ Did("set_from_path")) =>
         /\ Did("save")
         /\ file_path = ResultPath
         /\ cache = ImageFile(runs, background)
    /\ pc = "set_from_path" => desktop.mode = conf.bg_mode
    /\ result = Ok =>
         /\ desktop.mode = conf.bg_mode
         /\ desktop.path = file_path
         /\ desktop.image = ImageFile(runs, background)
    /\ result.kind = "Err" =>
         /\ ~Did("set_mode") /\ ~Did("set_from_path")
         /\ desktop = desktop0

C11_Witness ==
    /\ runs = 2
    /\ result = Ok
    /\ desktop0.image.state = "image"
    /\ desktop.mode # desktop0.mode
    /\ desktop.image # desktop0.image

\* C12: every run that saved returned the fixed path <cache>/result.png, and
\* result.png holds the composite of the most recent run that saved, with the
\* dimensions of that run's background.
C12_CacheHoldsLatestComposite ==
    /\ pc \in {"set_mode", "set_from_path"} \/ result = Ok =>
         /\ file_path = ResultPath
         /\ saved = ImageFile(runs, background)
    /\ saved.state = "image" =>
         /\ cache = saved
         /\ cache.size = saved.size

\* Hours the displayed counts stand for: 30-day months, 7-day weeks, 24-hour
\* days, over the enabled units only.
DisplayedHours ==
    (IF conf.show_months THEN 30 * 24 * months ELSE 0)
    + (IF conf.show_weeks THEN 7 * 24 * weeks ELSE 0)
    + (IF conf.show_days THEN 24 * days ELSE 0)
    + (IF conf.show_hours THEN hours ELSE 0)

\* C13: when hours are shown and the past-deadline test passed, the displayed
\* counts add up to the whole hours remaining until the deadline.
C13_CountsAddUp ==
    (Did("check") /\ result # Err(PastDeadlineMsg) /\ conf.show_hours) =>
        DisplayedHours = TruncDiv(deadline - today, 3600)

\* The same sum with months hidden (kept for comparison with C13).
C13_AddUpWithoutMonths ==
    (Did("check") /\ result # Err(PastDeadlineMsg) /\ conf.show_hours
     /\ ~conf.show_months) =>
        DisplayedHours = TruncDiv(deadline - today, 3600)

\* C14: once the size check has passed and the origin is computed, neither
\* subtraction underflowed and the text rectangle lies inside the background.
C14_TextInsideBackground ==
    Did("overlay") =>
        /\ background[1] \div 2 >= text_png[1] \div 2
        /\ background[2] \div 2 >= text_png[2] \div 2
        /\ origin[1] >= 0 /\ origin[2] >= 0
        /\ origin[1] + text_png[1] <= background[1]
        /\ origin[2] + text_png[2] <= background[2]

C14_Witness ==
    /\ Did("overlay")
    /\ background = <<4, 3>> /\ text_png = <<3, 2>>
    /\ origin[1] + text_png[1] = background[1]

====
